---- MODULE Spec2Model ----
(***************************************************************************)
(* Peer-identity resolution over a local-domain socket                     *)
(* (src/client/pid.rs): the Pid value type with its Display rendering and  *)
(* the three platform backends of get_pid (impl_linux, impl_macos,         *)
(* impl_windows), exactly one of which is compiled into a build.           *)
(*                                                                         *)
(* A call of get_pid is three steps of its calling thread: Call (the       *)
(* locals are bound), Query (the one native call, atomic in the kernel)    *)
(* and Return (the result is computed from the locals and the thread's     *)
(* last-error value).  The operating system is the environment: its answer *)
(* to the query is a function of the state of the socket the descriptor    *)
(* names.                                                                  *)
(***************************************************************************)
EXTENDS Integers, Sequences, FiniteSets, TLC

VARIABLES
    backend,     \* the backend compiled in: "linux", "macos" or "windows"
    threads,     \* the execution contexts that call get_pid
    sock,        \* sock[t]: the connection thread t owns and lends to get_pid
    errno,       \* errno[t]: the per-thread last-error value (errno / WSA last error)
    pc,          \* pc[t]: position of thread t in get_pid
    raw_fd,      \* raw_fd[t]: the local raw_fd / raw_socket
    ucred,       \* ucred[b]: credential buffer b (the local ucred / pid)
    ucred_size,  \* ucred_size[t]: the local ucred_size (linux)
    ret,         \* ret[t]: the local ret
    result,      \* result[t]: what the latest call of thread t returned
    prev,        \* prev[t]: at a return, what the call before it returned on this connection
    queries,     \* queries[t]: native queries issued by the call in progress
    qerr,        \* qerr[t]: error code the native query of this call raised (0: none)
    errno0,      \* errno0[t]: the thread's last-error value when the call began
    fmtIn,       \* the Pid handed to Display::fmt
    fmtOut       \* the text it wrote, as a sequence of characters

vars == <<backend, threads, sock, errno, pc, raw_fd, ucred, ucred_size, ret,
          result, prev, queries, qerr, errno0, fmtIn, fmtOut>>

getPidVars == <<backend, threads, sock, errno, pc, raw_fd, ucred, ucred_size,
                ret, result, prev, queries, qerr, errno0>>

-----------------------------------------------------------------------------
(* Bounds of the model *)

\* threads calling get_pid concurrently, each on its own connection
NumThreads == 2

\* peer identifiers 0..MaxSmallId are enumerated beside the edge values
MaxSmallId == 2

\* Display is applied to every Value(n) with |n| <= FmtRange beside the edges
FmtRange == 60

\* a call in progress issues at most this many native queries in the model
MaxQueries == 2

-----------------------------------------------------------------------------
(* The Pid value type and its rendering *)

PidNone == [kind |-> "None"]

PidAny == [kind |-> "Any"]

PidValue(n) == [kind |-> "Value", n |-> n]

\* i32::MIN and i32::MAX
I32Min == (-32768) * 65536

I32Max == 32767 * 65536 + 65535

Digit(d) == <<"0", "1", "2", "3", "4", "5", "6", "7", "8", "9">>[d + 1]

\* the decimal digits of an unsigned magnitude, most significant first
RECURSIVE fmt_u(_)
fmt_u(u) == IF u < 10 THEN <<Digit(u)>> ELSE fmt_u(u \div 10) \o <<Digit(u % 10)>>

\* the digits of the magnitude of a negative i32, taken as an unsigned value
\* (|i32::MIN| is no i32): |n| = 10 * (m \div 10 + 1) + m % 10 for m = |n| - 10
fmt_abs(n) ==
    IF n > -10 THEN <<Digit(-n)>>
    ELSE LET m == -(n + 10) IN fmt_u(m \div 10 + 1) \o <<Digit(m % 10)>>

fmt_i32_unsigned(n) == IF n >= 0 THEN fmt_u(n) ELSE fmt_abs(n)

\* write!(f, "{}", pid) for an i32: a minus sign for a negative value, then
\* the digits of its magnitude
fmt_i32(n) == IF n >= 0 THEN fmt_u(n) ELSE <<"-">> \o fmt_abs(n)

fmt(p) ==
    CASE p.kind = "None" -> <<"n", "o", "n", "e">>
      [] p.kind = "Any" -> <<"a", "n", "y">>
      [] p.kind = "Value" -> fmt_i32(p.n)

-----------------------------------------------------------------------------
(* io::Result<Pid> *)

Ok(p) == [tag |-> "Ok", pid |-> p]

Err(code) == [tag |-> "Err", code |-> code]

NoResult == [tag |-> "Pending"]

\* io::Error::last_os_error(): the calling thread's errno, whatever set it
last_os_error(e) == Err(e)

\* io::Error::from_raw_os_error(WSAGetLastError())
from_raw_os_error(e) == Err(e)

\* a 32-bit word of memory, as its two 16-bit halves; as an unsigned value it
\* is hi * 65536 + lo
U32(h, l) == [hi |-> h, lo |-> l]

\* the i32 a word holds (a field declared pid_t), two's complement
FieldI32(w) == (IF w.hi >= 32768 THEN w.hi - 65536 ELSE w.hi) * 65536 + w.lo

AsI32Saturating(w) == IF w.hi >= 32768 THEN I32Max ELSE w.hi * 65536 + w.lo

\* `x as _` from u32 to the i32 of Pid::Value: the same 32 bits, two's complement
AsI32(w) == (IF w.hi >= 32768 THEN w.hi - 65536 ELSE w.hi) * 65536 + w.lo

-----------------------------------------------------------------------------
(* The operating system *)

UcredSize == 12

SOCKET_ERROR == -1

Backends == {"linux", "macos", "windows"}

\* native error codes of the three platforms
ErrCode(b, kind) ==
    CASE kind = "EBADF" ->
           (CASE b = "linux" -> 9 [] b = "macos" -> 9 [] b = "windows" -> 10038)
      [] kind = "ENOTCONN" ->
           (CASE b = "linux" -> 107 [] b = "macos" -> 57 [] b = "windows" -> 10057)
      [] kind = "EAGAIN" ->
           (CASE b = "linux" -> 11 [] b = "macos" -> 35 [] b = "windows" -> 10035)

ZeroCred == [pid |-> U32(0, 0), uid |-> U32(0, 0), gid |-> U32(0, 0)]

\* the kernel copies the first len bytes of the record (pid, uid, gid: 4 bytes each)
CopyCred(buf, cred, len) ==
    [pid |-> IF len >= 4 THEN cred.pid ELSE buf.pid,
     uid |-> IF len >= 8 THEN cred.uid ELSE buf.uid,
     gid |-> IF len >= 12 THEN cred.gid ELSE buf.gid]

\* the socket a descriptor names in the process's descriptor table
SockOfFd(fd) == sock[CHOOSE u \in threads : sock[u].fd = fd]

\* the error code with which the platform refuses the query (0: it answers):
\* a descriptor that is closed names no socket, and a socket that was never
\* connected has no peer to report
NativeFailure(b, s) ==
    IF s.state = "closed" THEN ErrCode(b, "EBADF")
    ELSE IF s.state = "unconnected" THEN ErrCode(b, "ENOTCONN")
    ELSE 0

\* getsockopt(raw_fd, SOL_SOCKET, SO_PEERCRED, &mut ucred, &mut ucred_size)
getsockopt(s, buf, optlen, e) ==
    IF NativeFailure("linux", s) # 0
    THEN [ret |-> -1, cred |-> buf, len |-> optlen, errno |-> NativeFailure("linux", s)]
    ELSE LET n == IF s.reclen < optlen THEN s.reclen ELSE optlen
         IN  [ret |-> 0, cred |-> CopyCred(buf, s.peer, n), len |-> n, errno |-> e]

\* getpeereid(raw_fd, &mut ucred.uid, &mut ucred.gid)
getpeereid(s, buf, optlen, e) ==
    IF NativeFailure("macos", s) # 0
    THEN [ret |-> -1, cred |-> buf, len |-> optlen, errno |-> NativeFailure("macos", s)]
    ELSE [ret |-> 0, cred |-> [buf EXCEPT !.uid = s.peer.uid, !.gid = s.peer.gid],
          len |-> optlen, errno |-> e]

\* ioctlsocket(raw_socket, SIO_AF_UNIX_GETPEERPID, &mut pid)
ioctlsocket(s, buf, optlen, e) ==
    IF NativeFailure("windows", s) # 0
    THEN [ret |-> SOCKET_ERROR, cred |-> buf, len |-> optlen,
          errno |-> NativeFailure("windows", s)]
    ELSE [ret |-> 0, cred |-> [buf EXCEPT !.pid = s.peer.pid], len |-> optlen, errno |-> e]

NativeQuery(b, s, buf, optlen, e) ==
    CASE b = "linux" -> getsockopt(s, buf, optlen, e)
      [] b = "macos" -> getpeereid(s, buf, optlen, e)
      [] b = "windows" -> ioctlsocket(s, buf, optlen, e)

-----------------------------------------------------------------------------
(* get_pid: the part each backend computes after its native query *)

impl_linux_result_or(r, size, cred, e) ==
    IF r = 0 \/ size = UcredSize THEN Ok(PidValue(FieldI32(cred.pid))) ELSE last_os_error(e)

impl_linux_result_nosize(r, size, cred, e) ==
    IF r = 0 THEN Ok(PidValue(FieldI32(cred.pid))) ELSE last_os_error(e)

impl_linux_result(r, size, cred, e) ==
    IF r = 0 /\ size = UcredSize THEN Ok(PidValue(FieldI32(cred.pid))) ELSE last_os_error(e)

impl_macos_result_none(r, size, cred, e) ==
    IF r = 0 THEN Ok(PidValue(AsI32(cred.uid))) ELSE Ok(PidNone)

impl_macos_result(r, size, cred, e) ==
    IF r = 0 THEN Ok(PidValue(AsI32(cred.uid))) ELSE last_os_error(e)

impl_windows_result_lasterr(r, size, cred, e) ==
    IF e # 0 THEN from_raw_os_error(e) ELSE Ok(PidValue(AsI32(cred.pid)))

impl_windows_result(r, size, cred, e) ==
    IF r = SOCKET_ERROR THEN from_raw_os_error(e) ELSE Ok(PidValue(AsI32(cred.pid)))

get_pid_result(b, r, size, cred, e) ==
    CASE b = "linux" -> impl_linux_result(r, size, cred, e)
      [] b = "macos" -> impl_macos_result(r, size, cred, e)
      [] b = "windows" -> impl_windows_result(r, size, cred, e)

SharedBuffer(t) == 1

\* the credential buffer of a call is a local of that call
LocalBuffer(t) == t

DropAdoptedFd(s) == [s EXCEPT !.state = "closed"]

\* at return the locals are dropped: raw_fd is a plain integer and the buffer
\* owns nothing, so the borrowed handle goes back to the caller as it came
DropLocals(s) == s

RetryOnErr(r) == IF r.tag = "Err" THEN "called" ELSE "returned"

\* both branches of the final if/else are the function's value: it returns
AfterResult(r) == "returned"

-----------------------------------------------------------------------------
(* The states the environment can be in *)

SmallIds == {U32(0, v) : v \in (0..MaxSmallId) \cup {42}}

\* identifiers a platform can report in an unsigned 32-bit field, up to u32::MAX
U32Ids ==
    SmallIds \cup {U32(1, 0), U32(32767, 65535), U32(32768, 0), U32(65535, 65534),
                   U32(65535, 65535)}

\* the credentials the kernel recorded for the peer of a connected socket
PeerCreds(b) ==
    CASE b = "linux" ->
           {[pid |-> p, uid |-> u, gid |-> U32(0, 20)] :
              p \in SmallIds \cup {U32(64, 0), U32(32767, 65535)},
              u \in {U32(0, 1000), U32(65535, 65534)}}
      [] b = "macos" -> {[pid |-> U32(0, 0), uid |-> u, gid |-> U32(0, 20)] : u \in U32Ids}
      [] b = "windows" -> {[pid |-> p, uid |-> U32(0, 0), gid |-> U32(0, 0)] : p \in U32Ids}

\* lengths of the credential record the kernel may hand back (linux)
RecLens(b) == IF b = "linux" THEN {4, 8, UcredSize} ELSE {UcredSize}

NotConnected(t, st) == [fd |-> 2 + t, state |-> st, peer |-> ZeroCred, reclen |-> UcredSize]

Socks(b, t) ==
    {NotConnected(t, st) : st \in {"closed", "unconnected"}}
      \cup {[fd |-> 2 + t, state |-> "connected", peer |-> p, reclen |-> l] :
              p \in PeerCreds(b), l \in RecLens(b)}

\* the connections of the concurrent runs: every thread has a peer of its own
ConcSocks(b, t) ==
    {NotConnected(t, "closed")}
      \cup {[fd |-> 2 + t, state |-> "connected",
             peer |-> [pid |-> U32(0, 100 + t), uid |-> U32(0, 200 + t), gid |-> U32(0, 20)],
             reclen |-> l] :
              l \in (IF b = "linux" THEN {8, UcredSize} ELSE {UcredSize})}

\* what an earlier operation of the thread may have left in its last-error value
StaleErrnos(b) == {0, ErrCode(b, "EAGAIN")}

\* contents of a UCred { uid, gid } that was never written (mem::uninitialized)
Uninitialized == {ZeroCred, [pid |-> U32(0, 0), uid |-> U32(0, 7), gid |-> U32(65535, 65535)]}

-----------------------------------------------------------------------------
(* Initial states *)

NoFmt == fmtIn = PidNone /\ fmtOut = <<>>

\* T: the calling threads; S[b][t]: the connections thread t may hold on backend b
InitOver(T, S) ==
    /\ backend \in Backends
    /\ threads = T
    /\ sock \in {f \in [T -> UNION {S[backend][t] : t \in T}] : \A t \in T : f[t] \in S[backend][t]}
    /\ errno \in [T -> StaleErrnos(backend)]
    /\ pc = [t \in T |-> "idle"]
    /\ raw_fd = [t \in T |-> 0]
    /\ ucred = [t \in T |-> ZeroCred]
    /\ ucred_size = [t \in T |-> 0]
    /\ ret = [t \in T |-> 0]
    /\ result = [t \in T |-> NoResult]
    /\ prev = [t \in T |-> NoResult]
    /\ queries = [t \in T |-> 0]
    /\ qerr = [t \in T |-> 0]
    /\ errno0 = [t \in T |-> 0]

\* one caller, every socket state and every peer identifier
Init == InitOver({1}, [b \in Backends |-> [t \in {1} |-> Socks(b, t)]]) /\ NoFmt

\* NumThreads callers, each with its own connection
ConcInit ==
    InitOver(1..NumThreads, [b \in Backends |-> [t \in 1..NumThreads |-> ConcSocks(b, t)]]) /\ NoFmt

-----------------------------------------------------------------------------
(* get_pid *)

\* entry: raw_fd = sock.as_raw_fd(), the buffer and its size are bound
Call(t) ==
    /\ pc[t] \in {"idle", "returned"}
    /\ raw_fd' = [raw_fd EXCEPT ![t] = sock[t].fd]
    /\ \E buf \in (IF backend = "macos" THEN Uninitialized ELSE {ZeroCred}) :
          ucred' = [ucred EXCEPT ![LocalBuffer(t)] = buf]
    /\ ucred_size' = [ucred_size EXCEPT ![t] = IF backend = "linux" THEN UcredSize ELSE 0]
    /\ ret' = [ret EXCEPT ![t] = 0]
    /\ queries' = [queries EXCEPT ![t] = 0]
    /\ qerr' = [qerr EXCEPT ![t] = 0]
    /\ errno0' = [errno0 EXCEPT ![t] = errno[t]]
    /\ prev' = [prev EXCEPT ![t] = NoResult]
    /\ pc' = [pc EXCEPT ![t] = "called"]
    /\ UNCHANGED <<backend, threads, sock, errno, result, fmtIn, fmtOut>>

\* the native credential query
Query(t) ==
    /\ pc[t] = "called"
    /\ queries[t] < MaxQueries
    /\ LET q == NativeQuery(backend, SockOfFd(raw_fd[t]), ucred[LocalBuffer(t)],
                            ucred_size[t], errno[t])
       IN  /\ ret' = [ret EXCEPT ![t] = q.ret]
           /\ ucred' = [ucred EXCEPT ![LocalBuffer(t)] = q.cred]
           /\ ucred_size' = [ucred_size EXCEPT ![t] = q.len]
           /\ errno' = [errno EXCEPT ![t] = q.errno]
           /\ qerr' = [qerr EXCEPT ![t] = IF q.ret # 0 THEN q.errno ELSE 0]
    /\ queries' = [queries EXCEPT ![t] = @ + 1]
    /\ pc' = [pc EXCEPT ![t] = "queried"]
    /\ UNCHANGED <<backend, threads, sock, raw_fd, result, prev, errno0, fmtIn, fmtOut>>

\* the final if/else: Ok(Pid::Value(..)) or Err(..)
Return(t) ==
    /\ pc[t] = "queried"
    /\ LET r == get_pid_result(backend, ret[t], ucred_size[t], ucred[LocalBuffer(t)], errno[t])
       IN  /\ result' = [result EXCEPT ![t] = r]
           /\ pc' = [pc EXCEPT ![t] = AfterResult(r)]
    /\ prev' = [prev EXCEPT ![t] = result[t]]
    /\ sock' = [sock EXCEPT ![t] = DropLocals(@)]
    /\ UNCHANGED <<backend, threads, errno, raw_fd, ucred, ucred_size, ret, queries, qerr,
                   errno0, fmtIn, fmtOut>>

-----------------------------------------------------------------------------
(* The caller, between calls *)

\* the owner closes its connection
Close(t) ==
    /\ pc[t] \in {"idle", "returned"}
    /\ sock[t].state # "closed"
    /\ sock' = [sock EXCEPT ![t] = NotConnected(t, "closed")]
    /\ result' = [result EXCEPT ![t] = NoResult]
    /\ prev' = [prev EXCEPT ![t] = NoResult]
    /\ pc' = [pc EXCEPT ![t] = "idle"]
    /\ UNCHANGED <<backend, threads, errno, raw_fd, ucred, ucred_size, ret, queries, qerr,
                   errno0, fmtIn, fmtOut>>

\* another operation of the thread leaves its own last-error value behind
OtherOp(t) ==
    /\ pc[t] \in {"idle", "returned"}
    /\ \E e \in StaleErrnos(backend) : e # errno[t] /\ errno' = [errno EXCEPT ![t] = e]
    /\ prev' = [prev EXCEPT ![t] = NoResult]
    /\ pc' = [pc EXCEPT ![t] = "idle"]
    /\ UNCHANGED <<backend, threads, sock, raw_fd, ucred, ucred_size, ret, result,
                   queries, qerr, errno0, fmtIn, fmtOut>>

SomeCall == \E t \in threads : Call(t)

SomeQuery == \E t \in threads : Query(t)

SomeReturn == \E t \in threads : Return(t)

SomeClose == \E t \in threads : Close(t)

SomeOtherOp == \E t \in threads : OtherOp(t)

Next == SomeCall \/ SomeQuery \/ SomeReturn \/ SomeClose \/ SomeOtherOp

Spec == Init /\ [][Next]_vars

ConcSpec == ConcInit /\ [][Next]_vars

\* the native call is synchronous: a thread that entered get_pid runs on
FairSpec == Init /\ [][Next]_vars /\ WF_vars(Query(1)) /\ WF_vars(Return(1))

-----------------------------------------------------------------------------
(* Display *)

FmtInputs ==
    {PidNone, PidAny}
      \cup {PidValue(n) : n \in (-FmtRange..FmtRange) \cup {I32Min, I32Min + 1, -1000, 1000, I32Max}}

FmtInit ==
    /\ backend = "linux"
    /\ threads = {}
    /\ sock = <<>> /\ errno = <<>> /\ pc = <<>> /\ raw_fd = <<>> /\ ucred = <<>>
    /\ ucred_size = <<>> /\ ret = <<>> /\ result = <<>> /\ prev = <<>>
    /\ queries = <<>> /\ qerr = <<>> /\ errno0 = <<>>
    /\ fmtIn \in FmtInputs
    /\ fmtOut = <<>>

\* <Pid as fmt::Display>::fmt
Display ==
    /\ fmtOut = <<>>
    /\ fmtOut' = fmt(fmtIn)
    /\ UNCHANGED <<getPidVars, fmtIn>>

\* the next value to render
Rebind ==
    /\ fmtOut # <<>>
    /\ fmtIn' \in FmtInputs
    /\ fmtOut' = <<>>
    /\ UNCHANGED getPidVars

FmtNext == Display \/ Rebind

FmtSpec == FmtInit /\ [][FmtNext]_vars

-----------------------------------------------------------------------------
(* Properties *)

Returned(t) == pc[t] = "returned"

\* the native query of the call reported failure
NativeFailed(t) == IF backend = "windows" THEN ret[t] = SOCKET_ERROR ELSE ret[t] # 0

\* the identifier the platform reported for the peer of t's connection
Reported(t) ==
    CASE backend = "linux" -> sock[t].peer.pid
      [] backend = "macos" -> sock[t].peer.uid
      [] backend = "windows" -> sock[t].peer.pid

IsValue(r) == r.tag = "Ok" /\ r.pid.kind = "Value"

\* C1: a call whose native credential query reported failure returns Err,
\* never a Value
C1_NativeFailureIsErr ==
    \A t \in threads : (Returned(t) /\ NativeFailed(t)) => result[t].tag = "Err"

C1_Witness ==
    \E t \in threads :
        /\ Returned(t) /\ NativeFailed(t)
        /\ sock[t].state \in {"closed", "unconnected"}
        /\ result[t].tag = "Err"

\* C2: on linux, a query that returned 0 with a length other than
\* size_of::<ucred>() makes the call return Err, not the pid of that record
C2_ShortRecordIsErr ==
    \A t \in threads :
        (backend = "linux" /\ Returned(t) /\ ret[t] = 0 /\ ucred_size[t] # UcredSize)
            => result[t].tag = "Err"

C2_Witness ==
    \E t \in threads :
        /\ backend = "linux" /\ Returned(t) /\ ret[t] = 0
        /\ ucred_size[t] = 8 /\ result[t].tag = "Err"

\* C3 as stated: the n of a returned Value(n) is numerically the reported
\* identifier, an unsigned identifier of 2^31 or more included
C3_ValueEqualsReported ==
    \A t \in threads :
        (Returned(t) /\ IsValue(result[t])) =>
            /\ result[t].pid.n >= 0
            /\ result[t].pid.n = Reported(t).hi * 65536 + Reported(t).lo

\* C3 as amended: the n of a returned Value(n) is the reported identifier read
\* as a two's-complement i32: the identifier itself below 2^31, the identifier
\* minus 2^32 from 2^31 on
C3_ValueIsReportedAsI32 ==
    \A t \in threads :
        (Returned(t) /\ result[t].tag = "Ok") =>
            /\ result[t].pid.kind = "Value"
            /\ Reported(t).hi < 32768 =>
                 result[t].pid.n = Reported(t).hi * 65536 + Reported(t).lo
            /\ Reported(t).hi >= 32768 =>
                 result[t].pid.n = (Reported(t).hi - 65536) * 65536 + Reported(t).lo

C3_Witness ==
    \E t \in threads :
        /\ Returned(t) /\ IsValue(result[t])
        /\ Reported(t).hi >= 32768
        /\ result[t].pid.n < 0

\* C4: every call returns Ok(Value(n)) with n an i32, or Err; never Ok(None)
\* or Ok(Any)
C4_ValueOrErr ==
    \A t \in threads :
        Returned(t) =>
            \/ result[t].tag = "Err"
            \/ /\ IsValue(result[t])
               /\ result[t].pid.n >= I32Min
               /\ result[t].pid.n <= I32Max

C4_Witness ==
    /\ backend = "macos"
    /\ \E t \in threads : Returned(t) /\ NativeFailed(t) /\ result[t].tag = "Err"

\* C5: every Err carries the error code the native query of that same call
\* produced, the linux size-mismatch path included
C5_ErrCarriesQueryError ==
    \A t \in threads :
        (Returned(t) /\ result[t].tag = "Err") =>
            (qerr[t] # 0 /\ result[t].code = qerr[t])

\* C6: on a connection that stayed open with the same peer, the call after a
\* call that returned Value(n) returns the same Value(n)
C6_SecondCallSameValue ==
    \A t \in threads : (Returned(t) /\ IsValue(prev[t])) => result[t] = prev[t]

C6_Witness ==
    \E t \in threads :
        /\ Returned(t) /\ IsValue(prev[t]) /\ IsValue(result[t])
        /\ errno[t] # 0

\* a step of a call of get_pid (the caller's own steps end in "idle")
GetPidStep == \E t \in threads : pc'[t] # pc[t] /\ pc'[t] # "idle"

\* C7: no step of get_pid changes a socket: its descriptor, its state and its
\* peer are after the step what they were before
C7_SocketOnlyBorrowed == [][GetPidStep => sock' = sock]_vars

C7_Witness ==
    \E t \in threads :
        /\ Returned(t) /\ result[t].tag = "Ok"
        /\ sock[t].state = "connected" /\ sock[t].fd = raw_fd[t]

\* the buffers a call may start from
InitialBuffers == IF backend = "macos" THEN Uninitialized ELSE {ZeroCred}

\* what the call returns when nothing else runs: the query and the result in
\* one step, from the socket and the last-error value the call began with
RunAlone(t, buf) ==
    LET q == NativeQuery(backend, sock[t], buf,
                         IF backend = "linux" THEN UcredSize ELSE 0, errno0[t])
    IN  get_pid_result(backend, q.ret, q.len, q.cred, q.errno)

\* C8: under every interleaving of calls on distinct connections, each call
\* returns what it returns when run alone
C8_ConcurrentAsAlone ==
    \A t \in threads :
        Returned(t) => \A buf \in InitialBuffers : result[t] = RunAlone(t, buf)

C8_Witness ==
    /\ Cardinality(threads) >= 2
    /\ \E t, u \in threads :
          /\ t # u /\ Returned(t) /\ IsValue(result[t])
          /\ pc[u] = "queried" /\ ret[u] = 0
          /\ sock[u].state = "connected" /\ sock[t].peer # sock[u].peer

IsDigit(c) == c \in {"0", "1", "2", "3", "4", "5", "6", "7", "8", "9"}

DigitValue(c) == CHOOSE d \in 0..9 : Digit(d) = c

\* the number a digit string denotes, negated (so that i32::MIN has one)
RECURSIVE NegValue(_)
NegValue(ds) ==
    IF ds = <<>> THEN 0
    ELSE 10 * NegValue(SubSeq(ds, 1, Len(ds) - 1)) - DigitValue(ds[Len(ds)])

\* ds is the decimal numeral of a natural number: digits, no leading zero
IsNumeral(ds) ==
    /\ Len(ds) >= 1
    /\ \A i \in 1..Len(ds) : IsDigit(ds[i])
    /\ Len(ds) > 1 => ds[1] # "0"

\* txt is the signed decimal numeral of n
IsDecimalOf(txt, n) ==
    IF n < 0
    THEN /\ Len(txt) >= 2 /\ txt[1] = "-"
         /\ IsNumeral(Tail(txt)) /\ NegValue(Tail(txt)) = n
    ELSE IsNumeral(txt) /\ NegValue(txt) = -n

\* C9: None renders as "none", Any as "any", Value(n) as the signed decimal
\* digits of n, for every n, zero and negative values included
C9_DisplayExact ==
    fmtOut # <<>> =>
        /\ fmtIn = PidNone => fmtOut = <<"n", "o", "n", "e">>
        /\ fmtIn = PidAny => fmtOut = <<"a", "n", "y">>
        /\ fmtIn.kind = "Value" => IsDecimalOf(fmtOut, fmtIn.n)
        /\ fmtIn = PidValue(42) => fmtOut = <<"4", "2">>
        /\ fmtIn = PidValue(-1) => fmtOut = <<"-", "1">>
        /\ fmtIn = PidValue(0) => fmtOut = <<"0">>

C9_Witness == fmtIn = PidValue(-1) /\ fmtOut = <<"-", "1">>

\* C10: a call issues exactly one native query, failed or not, and then
\* returns: every call that began ends in a result
C10_OneQueryThenReturn ==
    /\ [](\A t \in threads : pc[t] \in {"queried", "returned"} => queries[t] = 1)
    /\ [](\A t \in threads : pc[t] = "called" => queries[t] = 0)
    /\ (pc[1] = "called") ~> (pc[1] = "returned")

C10_Witness ==
    \E t \in threads :
        /\ Returned(t) /\ queries[t] = 1
        /\ result[t].tag = "Err" /\ ucred_size[t] # UcredSize /\ backend = "linux"

====
